---- MODULE Spec2Model ----
(***************************************************************************)
(* State-machine model of the synthetic-person generator                   *)
(* (src/solutions/generate_fake_people.py and its Version2 copy):          *)
(* the sampler, the row generator, the two serializers and main.           *)
(***************************************************************************)
EXTENDS Bags, FiniteSets, Integers, Sequences, TLC

(* ------------------------------------------------------------------ *)
(* Bounds of the model                                                 *)
(* ------------------------------------------------------------------ *)
MaxN == 3
MaxChunk == 3
MaxSeed == 2
MaxLen == 4
MaxVal == 3
MaxIdLen == 3

Runs == {1, 2}
Profiles == {"solutions", "version2"}
Locales == {"en_US", "he_IL"}
Formats == {"csv", "parquet"}
Seeds == 0..MaxSeed
Nums == (-1)..MaxN

(* ------------------------------------------------------------------ *)
(* The pseudo-random engine (random.Random): a full-period linear      *)
(* congruential generator over RngModulus states.  random() returns    *)
(* the float state / RngModulus in [0, 1) and advances the cursor.     *)
(* ------------------------------------------------------------------ *)
RngModulus == 10000

RngNext(s) == (s * 9721 + 1) % RngModulus

\* random.Random(seed) and Faker.seed(seed): the engine states an integer seed
\* can start from (one state: seeding is a function of the seed)
SeedStates_unseeded(seed) == {seed % RngModulus, (seed + 1) % RngModulus}

SeedStates(seed) == {seed % RngModulus}

(* ------------------------------------------------------------------ *)
(* Sampler                                                             *)
(* ------------------------------------------------------------------ *)
MARITAL_STATUSES == <<"single", "married", "divorced", "widowed">>
CHILDREN_COUNTS == <<0, 1, 2, 3, 4, 5>>

AGE_MIN == 18
AgeMax(profile) == IF profile = "solutions" THEN 90 ELSE 95
AgeMode(profile) == IF profile = "solutions" THEN 32 ELSE 30

RECURSIVE SumTo(_, _)
SumTo(w, i) == IF i = 0 THEN 0 ELSE w[i] + SumTo(w, i - 1)

\* rng.choices(population, weights=w, k=1)[0] for the draw u / RngModulus:
\* bisect_right of u * total over the cumulative weights, capped at the last index
Choices(population, w, u) ==
    LET n == Len(w)
        total == SumTo(w, n)
        idx == Cardinality({i \in 1..(n - 1) : SumTo(w, i) * RngModulus <= u * total})
    IN  population[idx + 1]

\* rng.triangular(low, high, mode) truncated by int(), for the draw u / RngModulus.
\* Lower branch: low + sqrt(u * (mode-low) * (high-low)); upper branch:
\* high - sqrt((1-u) * (high-mode) * (high-low)); int() floors a positive float.
Triangular(low, high, mode, u) ==
    IF u * (high - low) <= (mode - low) * RngModulus
    THEN LET x == u * (mode - low) * (high - low)
             k == CHOOSE j \in 0..(high - low) :
                     /\ j * j * RngModulus <= x
                     /\ (j + 1) * (j + 1) * RngModulus > x
         IN  low + k
    ELSE LET y == (RngModulus - u) * (high - mode) * (high - low)
             m == CHOOSE j \in 0..(high - low) :
                     /\ j * j * RngModulus >= y
                     /\ (j = 0 \/ (j - 1) * (j - 1) * RngModulus < y)
         IN  high - m

sample_age_from_zero(profile, u) == Triangular(0, AgeMax(profile), AgeMode(profile), u)

sample_age(profile, u) == Triangular(AGE_MIN, AgeMax(profile), AgeMode(profile), u)

\* (the same tables with inclusive upper bounds, age <= X)
MaritalWeights_inclusive(profile, age) ==
    IF profile = "solutions"
    THEN IF age <= 22 THEN <<9400, 400, 100, 100>>
         ELSE IF age <= 30 THEN <<6000, 3500, 300, 200>>
         ELSE IF age <= 45 THEN <<2500, 6500, 700, 300>>
         ELSE IF age <= 65 THEN <<1500, 7000, 1000, 500>>
         ELSE <<1000, 6500, 1000, 1500>>
    ELSE IF age <= 22 THEN <<9500, 300, 100, 100>>
         ELSE IF age <= 30 THEN <<5500, 4000, 300, 200>>
         ELSE IF age <= 45 THEN <<2000, 7000, 700, 300>>
         ELSE IF age <= 65 THEN <<1500, 7000, 1000, 500>>
         ELSE <<1000, 6000, 1000, 2000>>

\* weight vectors, in units of 1/10000
MaritalWeights(profile, age) ==
    IF profile = "solutions"
    THEN IF age < 22 THEN <<9400, 400, 100, 100>>
         ELSE IF age < 30 THEN <<6000, 3500, 300, 200>>
         ELSE IF age < 45 THEN <<2500, 6500, 700, 300>>
         ELSE IF age < 65 THEN <<1500, 7000, 1000, 500>>
         ELSE <<1000, 6500, 1000, 1500>>
    ELSE IF age < 22 THEN <<9500, 300, 100, 100>>
         ELSE IF age < 30 THEN <<5500, 4000, 300, 200>>
         ELSE IF age < 45 THEN <<2000, 7000, 700, 300>>
         ELSE IF age < 65 THEN <<1500, 7000, 1000, 500>>
         ELSE <<1000, 6000, 1000, 2000>>

choose_marital_status(profile, age, u) ==
    Choices(MARITAL_STATUSES, MaritalWeights(profile, age), u)

ChildrenWeights(profile, age, marital_status) ==
    IF profile = "solutions"
    THEN IF marital_status = "single" THEN <<8500, 1000, 400, 90, 9, 1>>
         ELSE IF marital_status = "married"
              THEN IF age < 30 THEN <<5000, 3500, 1200, 270, 28, 2>>
                   ELSE IF age < 40 THEN <<2500, 3500, 2800, 1000, 200, 50>>
                   ELSE IF age < 55 THEN <<2000, 3000, 3000, 1500, 400, 100>>
                   ELSE <<2000, 3000, 3000, 1500, 400, 100>>
         ELSE IF marital_status = "divorced" THEN <<4500, 3000, 1800, 600, 100, 50>>
         ELSE <<4000, 3000, 2000, 800, 150, 50>>
    ELSE IF marital_status = "single" THEN <<8600, 1000, 350, 40, 9, 1>>
         ELSE IF marital_status = "married"
              THEN IF age < 30 THEN <<4000, 4000, 1600, 350, 40, 10>>
                   ELSE IF age < 40 THEN <<1500, 2500, 3500, 2000, 450, 100>>
                   ELSE IF age < 55 THEN <<1000, 2000, 3200, 2500, 1000, 300>>
                   ELSE <<1200, 2200, 3000, 2200, 1000, 400>>
         ELSE IF marital_status = "divorced" THEN <<3500, 3000, 2200, 900, 300, 100>>
         ELSE <<3000, 3000, 2200, 1200, 450, 150>>

\* TRUE when sample_children returns 0 without consuming a draw
ChildrenSkipsDraw_never(age) == FALSE

ChildrenSkipsDraw(age) == age < 22

sample_children_unguarded(profile, age, marital_status, u) ==
    Choices(CHILDREN_COUNTS, ChildrenWeights(profile, age, marital_status), u)

sample_children(profile, age, marital_status, u) ==
    IF ChildrenSkipsDraw(age) THEN 0
    ELSE Choices(CHILDREN_COUNTS, ChildrenWeights(profile, age, marital_status), u)

(* ------------------------------------------------------------------ *)
(* Name provider (Faker): a lexicon per locale, one draw per call      *)
(* ------------------------------------------------------------------ *)
FirstNames(locale) ==
    IF locale = "en_US"
    THEN << <<"A", "n", "n">>, <<"B", "o", "b">> >>
    ELSE << <<"N", "o", "a">>, <<"D", "a", "n">>, <<"G", "i", "l">> >>

LastNames(locale) ==
    IF locale = "en_US"
    THEN << <<"L", "e", "e">>, <<"O", "'", "D", "a", "y">>, <<"K", "i", "m">> >>
    ELSE << <<"L", "e", "v", "i">>, <<"B", "e", "n", "-", "D", "o", "r">> >>

\* random_element(lexicon) for the draw u / RngModulus
random_element(lexicon, u) == lexicon[((u * Len(lexicon)) \div RngModulus) + 1]

(* ------------------------------------------------------------------ *)
(* Delimited-text formatting (csv.DictWriter, QUOTE_MINIMAL, "\r\n")   *)
(* A text is a sequence of tokens whose concatenation is the file.     *)
(* ------------------------------------------------------------------ *)
FIELDNAMES == <<"name", "family_name", "marital_status", "age", "number_of_children">>

CsvSpecial == {",", "\"", "\r", "\n"}

RECURSIVE DoubleQuotes(_)
DoubleQuotes(chars) ==
    IF chars = <<>> THEN <<>>
    ELSE (IF Head(chars) = "\"" THEN <<"\"", "\"">> ELSE <<Head(chars)>>)
         \o DoubleQuotes(Tail(chars))

CsvField(chars) ==
    IF \E i \in 1..Len(chars) : chars[i] \in CsvSpecial
    THEN <<"\"">> \o DoubleQuotes(chars) \o <<"\"">>
    ELSE chars

Digit(d) == <<"0", "1", "2", "3", "4", "5", "6", "7", "8", "9">>[d + 1]

RECURSIVE IntToStr(_)
IntToStr(n) ==
    IF n < 0 THEN <<"-">> \o IntToStr(-n)
    ELSE IF n < 10 THEN <<Digit(n)>>
    ELSE IntToStr(n \div 10) \o <<Digit(n % 10)>>

HeaderLine ==
    <<FIELDNAMES[1], ",", FIELDNAMES[2], ",", FIELDNAMES[3], ",", FIELDNAMES[4], ",",
      FIELDNAMES[5], "\r\n">>

FormatRow(row) ==
    CsvField(row.name) \o <<",">> \o CsvField(row.family_name) \o <<",">>
    \o CsvField(<<row.marital_status>>) \o <<",">> \o CsvField(IntToStr(row.age))
    \o <<",">> \o CsvField(IntToStr(row.number_of_children)) \o <<"\r\n">>

(* ------------------------------------------------------------------ *)
(* Columnar batches (pa.Table.from_pydict with the fixed schema)       *)
(* ------------------------------------------------------------------ *)
SCHEMA == <<"string", "string", "string", "int16", "int8">>

Pow2(bits) == IF bits = 16 THEN 65536 ELSE 256

\* the value as stored in a signed column of the given width
CastInt(x, bits) == ((x + Pow2(bits) \div 2) % Pow2(bits)) - Pow2(bits) \div 2

TypedRow(row) ==
    [row EXCEPT !.age = CastInt(@, 16), !.number_of_children = CastInt(@, 8)]

TableFromPydict(batch) == [k \in 1..Len(batch) |-> TypedRow(batch[k])]

\* line 132: a full batch is due
\* (a test that lets the buffer grow one row past chunk_size)
FlushDue_late(count, chunk_size) == count % (chunk_size + 1) = 0
FlushDue(count, chunk_size) == count % chunk_size = 0

\* lines 137-138: the buffer after a full-batch flush
BatchAfterFlush_kept(batch) == batch

BatchAfterFlush(batch) == <<>>

\* line 140: a trailing partial batch is due
FinalFlushDue_never(batch) == FALSE

FinalFlushDue(batch) == batch # <<>>

DEFAULT_CHUNK_SIZE(profile) == IF profile = "solutions" THEN 100000 ELSE 50000
PROGRESS_EVERY(profile) == IF profile = "solutions" THEN 100000 ELSE 5000

RECURSIVE Concat(_)
Concat(tables) == IF tables = <<>> THEN <<>> ELSE Head(tables) \o Concat(Tail(tables))

RECURSIVE FormatRows(_)
FormatRows(rows) == IF rows = <<>> THEN <<>> ELSE FormatRow(Head(rows)) \o FormatRows(Tail(rows))

(* ------------------------------------------------------------------ *)
(* State                                                               *)
(* ------------------------------------------------------------------ *)
VARIABLES
    args,     \* per run: the parsed command line and the environment (HAVE_PARQUET)
    pc,       \* per run: position in main / serializer / generator body
    gen,      \* per run: the generator frame of generate_people
    row,      \* per run: the loop variable of the serializer
    fs,       \* per run: the output directory and file
    csv,      \* per run: the text writer (handle, rows handed to writerow)
    pq,       \* per run: write_parquet's locals and the ParquetWriter
    stderr,   \* per run: diagnostics printed
    exit,     \* per run: process exit status (0 or 1; -1 while the process runs)
    draws,    \* per run: history of the random draws consumed, in order
    bank,     \* race_condition.py / race_condition_fixed.py: balance, lock, threads
    dup,      \* find_duplicates.py / find_duplicates_fixed.py: the loop's frame
    web,      \* sql_injection_secure.py: one request to /user and the database
    probe     \* the sampler called on its own: one age, one status, the weights used

genVars == <<args, pc, gen, row, fs, csv, pq, stderr, exit, draws>>
otherVars == <<bank, dup, web, probe>>
vars == <<args, pc, gen, row, fs, csv, pq, stderr, exit, draws, bank, dup, web, probe>>

\* the other programs of the repository, not running
BankIdle == [pc |-> "off"]
DupIdle == [pc |-> "off"]
WebIdle == [pc |-> "off"]
ProbeIdle == [pc |-> "off"]

OthersIdle == bank = BankIdle /\ dup = DupIdle /\ web = WebIdle /\ probe = ProbeIdle

NoRow == [name |-> <<>>, family_name |-> <<>>, marital_status |-> "", age |-> 0,
          number_of_children |-> 0]

GenInit == [started |-> FALSE, i |-> 0, rng |-> 0, faker |-> 0, age |-> 0,
            marital_status |-> "", children |-> 0, name |-> <<>>, family_name |-> <<>>]

FsInit == [dir |-> FALSE, file |-> "absent", text |-> <<>>, schema |-> <<>>]
CsvInit == [handle |-> "none", rows |-> <<>>, closes |-> 0]
PqInit == [writer |-> "none", batch |-> <<>>, count |-> 0, tables |-> <<>>, closes |-> 0]

ChunkSizes(format, profile) ==
    IF format = "csv" THEN {DEFAULT_CHUNK_SIZE(profile)}
    ELSE (1..MaxChunk) \cup {DEFAULT_CHUNK_SIZE(profile)}

ArgSets(haves) ==
    UNION {UNION {[num : Nums, format : {f}, locale : Locales, seed : Seeds,
                   profile : {p}, chunk_size : ChunkSizes(f, p), have_parquet : haves]
                  : f \in Formats} : p \in Profiles}

GenRest ==
    /\ gen = [r \in Runs |-> GenInit]
    /\ row = [r \in Runs |-> NoRow]
    /\ fs = [r \in Runs |-> FsInit]
    /\ csv = [r \in Runs |-> CsvInit]
    /\ pq = [r \in Runs |-> PqInit]
    /\ stderr = [r \in Runs |-> <<>>]
    /\ exit = [r \in Runs |-> -1]
    /\ draws = [r \in Runs |-> <<>>]

InitRest == GenRest /\ OthersIdle

\* no generator process is started
NoArgs == [num |-> 0, format |-> "csv", locale |-> "en_US", seed |-> 0,
           profile |-> "solutions", chunk_size |-> DEFAULT_CHUNK_SIZE("solutions"),
           have_parquet |-> FALSE]

GenIdle ==
    /\ args = [r \in Runs |-> NoArgs]
    /\ pc = [r \in Runs |-> "off"]
    /\ GenRest

\* one run of the program; the second process is never started
Init ==
    /\ \E a \in ArgSets(BOOLEAN) : args = [r \in Runs |-> a]
    /\ pc = [r \in Runs |-> IF r = 1 THEN "main" ELSE "off"]
    /\ InitRest

(* ------------------------------------------------------------------ *)
(* main                                                                *)
(* ------------------------------------------------------------------ *)
\* lines 159-166: the generator object is created (its body has not run),
\* the output directory is made, the serializer is entered
Main_Setup(r) ==
    /\ pc[r] = "main"
    /\ fs' = [fs EXCEPT ![r].dir = TRUE]
    /\ pc' = [pc EXCEPT ![r] = IF args[r].format = "csv" THEN "write_csv"
                                ELSE "write_parquet"]
    /\ UNCHANGED otherVars
    /\ UNCHANGED <<args, gen, row, csv, pq, stderr, exit, draws>>

\* line 168
Main_Done(r) ==
    /\ pc[r] = "return"
    /\ stderr' = [stderr EXCEPT ![r] = Append(@, [msg |-> "done", n |-> args[r].num])]
    /\ exit' = [exit EXCEPT ![r] = 0]
    /\ pc' = [pc EXCEPT ![r] = "exited"]
    /\ UNCHANGED otherVars
    /\ UNCHANGED <<args, gen, row, fs, csv, pq, draws>>

(* ------------------------------------------------------------------ *)
(* generate_people: the generator body, resumed by the serializer loop *)
(* ------------------------------------------------------------------ *)
\* lines 74-77, run by the first next(): both engines are seeded
Gen_Start(r) ==
    /\ pc[r] = "next"
    /\ ~gen[r].started
    /\ \E s \in SeedStates(args[r].seed), f \in SeedStates(args[r].seed) :
          gen' = [gen EXCEPT ![r].started = TRUE, ![r].rng = s, ![r].faker = f]
    /\ UNCHANGED otherVars
    /\ UNCHANGED <<args, pc, row, fs, csv, pq, stderr, exit, draws>>

\* lines 79-80
Gen_Age(r) ==
    /\ pc[r] = "next"
    /\ gen[r].started
    /\ gen[r].i < args[r].num
    /\ gen' = [gen EXCEPT ![r].age = sample_age(args[r].profile, gen[r].rng),
                          ![r].rng = RngNext(@)]
    /\ draws' = [draws EXCEPT ![r] = Append(@, [kind |-> "age", i |-> gen[r].i])]
    /\ pc' = [pc EXCEPT ![r] = "status"]
    /\ UNCHANGED otherVars
    /\ UNCHANGED <<args, row, fs, csv, pq, stderr, exit>>

\* line 79: range(n) is exhausted, the generator returns (StopIteration)
Gen_Stop(r) ==
    /\ pc[r] = "next"
    /\ gen[r].started
    /\ gen[r].i >= args[r].num
    /\ pc' = [pc EXCEPT ![r] = "after_loop"]
    /\ UNCHANGED otherVars
    /\ UNCHANGED <<args, gen, row, fs, csv, pq, stderr, exit, draws>>

\* line 81
Gen_Status(r) ==
    /\ pc[r] = "status"
    /\ gen' = [gen EXCEPT
                 ![r].marital_status =
                     choose_marital_status(args[r].profile, gen[r].age, gen[r].rng),
                 ![r].rng = RngNext(@)]
    /\ draws' = [draws EXCEPT ![r] = Append(@, [kind |-> "status", i |-> gen[r].i])]
    /\ pc' = [pc EXCEPT ![r] = "children"]
    /\ UNCHANGED otherVars
    /\ UNCHANGED <<args, row, fs, csv, pq, stderr, exit>>

\* line 82: sample_children draws only when it does not return early
Gen_Children(r) ==
    /\ pc[r] = "children"
    /\ gen' = [gen EXCEPT
                 ![r].children =
                     sample_children(args[r].profile, gen[r].age, gen[r].marital_status,
                                     gen[r].rng),
                 ![r].rng = IF ChildrenSkipsDraw(gen[r].age) THEN @ ELSE RngNext(@)]
    /\ draws' = [draws EXCEPT ![r] =
                    IF ChildrenSkipsDraw(gen[r].age) THEN @
                    ELSE Append(@, [kind |-> "children", i |-> gen[r].i])]
    /\ pc' = [pc EXCEPT ![r] = "first_name"]
    /\ UNCHANGED otherVars
    /\ UNCHANGED <<args, row, fs, csv, pq, stderr, exit>>

\* line 84: fake.first_name() draws from Faker's own engine
Gen_FirstName(r) ==
    /\ pc[r] = "first_name"
    /\ gen' = [gen EXCEPT
                 ![r].name = random_element(FirstNames(args[r].locale), gen[r].faker),
                 ![r].faker = RngNext(@)]
    /\ draws' = [draws EXCEPT ![r] = Append(@, [kind |-> "first_name", i |-> gen[r].i])]
    /\ pc' = [pc EXCEPT ![r] = "last_name"]
    /\ UNCHANGED otherVars
    /\ UNCHANGED <<args, row, fs, csv, pq, stderr, exit>>

\* line 85
Gen_LastName(r) ==
    /\ pc[r] = "last_name"
    /\ gen' = [gen EXCEPT
                 ![r].family_name = random_element(LastNames(args[r].locale), gen[r].faker),
                 ![r].faker = RngNext(@)]
    /\ draws' = [draws EXCEPT ![r] = Append(@, [kind |-> "last_name", i |-> gen[r].i])]
    /\ pc' = [pc EXCEPT ![r] = "yield"]
    /\ UNCHANGED otherVars
    /\ UNCHANGED <<args, row, fs, csv, pq, stderr, exit>>

\* lines 83-92: the record is assembled, progress is printed, the row is yielded
Gen_Yield(r) ==
    /\ pc[r] = "yield"
    /\ row' = [row EXCEPT ![r] =
                  [name |-> gen[r].name, family_name |-> gen[r].family_name,
                   marital_status |-> gen[r].marital_status, age |-> gen[r].age,
                   number_of_children |-> gen[r].children]]
    /\ stderr' = [stderr EXCEPT ![r] =
                    IF (gen[r].i + 1) % PROGRESS_EVERY(args[r].profile) = 0
                    THEN Append(@, [msg |-> "progress", n |-> gen[r].i + 1])
                    ELSE @]
    /\ gen' = [gen EXCEPT ![r].i = @ + 1]
    /\ pc' = [pc EXCEPT ![r] = "body"]
    /\ UNCHANGED otherVars
    /\ UNCHANGED <<args, fs, csv, pq, exit, draws>>

(* ------------------------------------------------------------------ *)
(* write_csv                                                           *)
(* ------------------------------------------------------------------ *)
\* lines 95-100: open(path, "w") truncates or creates the file, the header is written
WriteCsv_Open(r) ==
    /\ pc[r] = "write_csv"
    /\ fs' = [fs EXCEPT ![r].file = "present", ![r].text = HeaderLine]
    /\ csv' = [csv EXCEPT ![r].handle = "open"]
    /\ pc' = [pc EXCEPT ![r] = "next"]
    /\ UNCHANGED otherVars
    /\ UNCHANGED <<args, gen, row, pq, stderr, exit, draws>>

\* line 102
Csv_WriteRow(r) ==
    /\ pc[r] = "body"
    /\ args[r].format = "csv"
    /\ fs' = [fs EXCEPT ![r].text = @ \o FormatRow(row[r])]
    /\ csv' = [csv EXCEPT ![r].rows = Append(@, row[r])]
    /\ pc' = [pc EXCEPT ![r] = "next"]
    /\ UNCHANGED otherVars
    /\ UNCHANGED <<args, gen, row, pq, stderr, exit, draws>>

\* line 102 raising (an I/O error): the exception leaves the loop
Csv_WriteRaise(r) ==
    /\ pc[r] = "body"
    /\ args[r].format = "csv"
    /\ pc' = [pc EXCEPT ![r] = "unwind"]
    /\ UNCHANGED otherVars
    /\ UNCHANGED <<args, gen, row, fs, csv, pq, stderr, exit, draws>>

\* line 95: the with block is left normally, the file is flushed and closed
Csv_Close(r) ==
    /\ pc[r] = "after_loop"
    /\ args[r].format = "csv"
    /\ csv' = [csv EXCEPT ![r].handle = "closed", ![r].closes = @ + 1]
    /\ pc' = [pc EXCEPT ![r] = "return"]
    /\ UNCHANGED otherVars
    /\ UNCHANGED <<args, gen, row, fs, pq, stderr, exit, draws>>

(* ------------------------------------------------------------------ *)
(* write_parquet                                                       *)
(* ------------------------------------------------------------------ *)
\* line 105: not HAVE_PARQUET
BackendMissing_ignored(a) == FALSE

BackendMissing(a) == ~a.have_parquet

\* lines 105-107: the backend is missing
WriteParquet_Unavailable(r) ==
    /\ pc[r] = "write_parquet"
    /\ BackendMissing(args[r])
    /\ stderr' = [stderr EXCEPT ![r] = Append(@, [msg |-> "pyarrow_missing", n |-> 0])]
    /\ exit' = [exit EXCEPT ![r] = 1]
    /\ pc' = [pc EXCEPT ![r] = "exited"]
    /\ UNCHANGED otherVars
    /\ UNCHANGED <<args, gen, row, fs, csv, pq, draws>>

\* lines 109-126: schema, writer = None, empty batch, count = 0
WriteParquet_Enter(r) ==
    /\ pc[r] = "write_parquet"
    /\ ~BackendMissing(args[r])
    /\ pq' = [pq EXCEPT ![r] = PqInit]
    /\ pc' = [pc EXCEPT ![r] = "next"]
    /\ UNCHANGED otherVars
    /\ UNCHANGED <<args, gen, row, fs, csv, stderr, exit, draws>>

\* lines 133-136 and 141-144: the batch becomes a table, the writer is created on
\* first use, the table is written
Flushed(p, batch) ==
    [p EXCEPT !.writer = "open", !.tables = Append(@, TableFromPydict(batch))]

\* lines 135 and 143: pq.ParquetWriter(path, table.schema) creates the file
WriterCreated(f) == [f EXCEPT !.file = "present", !.schema = SCHEMA]

\* lines 128-138
Parquet_Append(r) ==
    /\ pc[r] = "body"
    /\ args[r].format = "parquet"
    /\ LET batch == Append(pq[r].batch, row[r])
           count == pq[r].count + 1
           p == [pq[r] EXCEPT !.batch = batch, !.count = count]
       IN  IF FlushDue(count, args[r].chunk_size)
           THEN /\ pq' = [pq EXCEPT ![r] =
                            [Flushed(p, batch) EXCEPT !.batch = BatchAfterFlush(batch)]]
                /\ fs' = [fs EXCEPT ![r] = WriterCreated(@)]
           ELSE /\ pq' = [pq EXCEPT ![r] = p]
                /\ fs' = fs
    /\ pc' = [pc EXCEPT ![r] = "next"]
    /\ UNCHANGED otherVars
    /\ UNCHANGED <<args, gen, row, csv, stderr, exit, draws>>

\* lines 140-147 after the loop ended normally: the trailing batch, then finally
Parquet_Finish(r) ==
    /\ pc[r] = "after_loop"
    /\ args[r].format = "parquet"
    /\ LET p == IF FinalFlushDue(pq[r].batch) THEN Flushed(pq[r], pq[r].batch) ELSE pq[r]
       IN  /\ pq' = [pq EXCEPT ![r] =
                       IF p.writer # "none"
                       THEN [p EXCEPT !.writer = "closed", !.closes = @ + 1]
                       ELSE p]
           /\ fs' = [fs EXCEPT ![r] = IF p.writer # "none" THEN WriterCreated(@) ELSE @]
    /\ pc' = [pc EXCEPT ![r] = "return"]
    /\ UNCHANGED otherVars
    /\ UNCHANGED <<args, gen, row, csv, stderr, exit, draws>>

\* lines 133-136 or 141-144 raising: pq.ParquetWriter(...) fails (the writer stays
\* None) or writer.write_table fails (the writer exists)
Parquet_FlushRaise(r) ==
    /\ args[r].format = "parquet"
    /\ \/ /\ pc[r] = "body"
          /\ FlushDue(pq[r].count + 1, args[r].chunk_size)
       \/ /\ pc[r] = "after_loop"
          /\ FinalFlushDue(pq[r].batch)
    /\ \E stage \in {"open", "write"} :
          /\ stage = "open" => pq[r].writer = "none"
          /\ LET p == IF pc[r] = "body"
                      THEN [pq[r] EXCEPT !.batch = Append(@, row[r]), !.count = @ + 1]
                      ELSE pq[r]
             IN  /\ pq' = [pq EXCEPT ![r] =
                             IF stage = "write" THEN [p EXCEPT !.writer = "open"] ELSE p]
                 /\ fs' = [fs EXCEPT ![r] = IF stage = "write" THEN WriterCreated(@) ELSE @]
    /\ pc' = [pc EXCEPT ![r] = "unwind"]
    /\ UNCHANGED otherVars
    /\ UNCHANGED <<args, gen, row, csv, stderr, exit, draws>>

(* ------------------------------------------------------------------ *)
(* Exceptions                                                          *)
(* ------------------------------------------------------------------ *)
GenPositions == {"next", "status", "children", "first_name", "last_name", "yield"}

\* an exception raised inside the generator body reaches the serializer's for loop
Gen_Raise(r) ==
    /\ pc[r] \in GenPositions
    /\ pc' = [pc EXCEPT ![r] = "unwind"]
    /\ UNCHANGED otherVars
    /\ UNCHANGED <<args, gen, row, fs, csv, pq, stderr, exit, draws>>

\* (an except clause that swallowed the exception would let main go on)
Unwind_swallowed(r) ==
    /\ pc[r] = "unwind"
    /\ pc' = [pc EXCEPT ![r] = "return"]
    /\ UNCHANGED otherVars
    /\ UNCHANGED <<args, gen, row, fs, csv, pq, stderr, exit, draws>>

\* the exception leaves the serializer through the with block (line 95) or the
\* finally clause (lines 145-147), then leaves main: the process ends with status 1
Unwind(r) ==
    /\ pc[r] = "unwind"
    /\ csv' = [csv EXCEPT ![r] =
                 IF args[r].format = "csv" /\ @.handle = "open"
                 THEN [@ EXCEPT !.handle = "closed", !.closes = @ + 1] ELSE @]
    /\ pq' = [pq EXCEPT ![r] =
                 IF args[r].format = "parquet" /\ @.writer # "none"
                 THEN [@ EXCEPT !.writer = "closed", !.closes = @ + 1] ELSE @]
    /\ stderr' = [stderr EXCEPT ![r] = Append(@, [msg |-> "traceback", n |-> 0])]
    /\ exit' = [exit EXCEPT ![r] = 1]
    /\ pc' = [pc EXCEPT ![r] = "exited"]
    /\ UNCHANGED otherVars
    /\ UNCHANGED <<args, gen, row, fs, draws>>

(* ------------------------------------------------------------------ *)
(* Specifications                                                      *)
(* ------------------------------------------------------------------ *)
Next ==
    \E r \in Runs :
        \/ Main_Setup(r)
        \/ WriteCsv_Open(r)
        \/ WriteParquet_Unavailable(r)
        \/ WriteParquet_Enter(r)
        \/ Gen_Start(r)
        \/ Gen_Age(r)
        \/ Gen_Status(r)
        \/ Gen_Children(r)
        \/ Gen_FirstName(r)
        \/ Gen_LastName(r)
        \/ Gen_Yield(r)
        \/ Gen_Stop(r)
        \/ Gen_Raise(r)
        \/ Csv_WriteRow(r)
        \/ Csv_WriteRaise(r)
        \/ Csv_Close(r)
        \/ Parquet_Append(r)
        \/ Parquet_Finish(r)
        \/ Parquet_FlushRaise(r)
        \/ Unwind(r)
        \/ Main_Done(r)

Spec == Init /\ [][Next]_vars

\* two independent runs of the program on the same count, locale and profile,
\* with the backend installed and no fault; their steps commute, so the second
\* process is scheduled after the first has exited
InitPair ==
    /\ \E n \in Nums, l \in Locales, p \in Profiles :
          args \in [Runs -> {a \in ArgSets({TRUE}) :
                               a.num = n /\ a.locale = l /\ a.profile = p}]
    /\ pc = [r \in Runs |-> "main"]
    /\ InitRest

Turn(r) == r = 1 \/ pc[1] = "exited"

NextPair ==
    \E r \in Runs :
        \/ Turn(r) /\ Main_Setup(r)
        \/ Turn(r) /\ WriteCsv_Open(r)
        \/ Turn(r) /\ WriteParquet_Enter(r)
        \/ Turn(r) /\ Gen_Start(r)
        \/ Turn(r) /\ Gen_Age(r)
        \/ Turn(r) /\ Gen_Status(r)
        \/ Turn(r) /\ Gen_Children(r)
        \/ Turn(r) /\ Gen_FirstName(r)
        \/ Turn(r) /\ Gen_LastName(r)
        \/ Turn(r) /\ Gen_Yield(r)
        \/ Turn(r) /\ Gen_Stop(r)
        \/ Turn(r) /\ Csv_WriteRow(r)
        \/ Turn(r) /\ Csv_Close(r)
        \/ Turn(r) /\ Parquet_Append(r)
        \/ Turn(r) /\ Parquet_Finish(r)
        \/ Turn(r) /\ Main_Done(r)

SpecPair == InitPair /\ [][NextPair]_vars

(* ------------------------------------------------------------------ *)
(* Properties                                                          *)
(* ------------------------------------------------------------------ *)
SameInputs(a, b) ==
    /\ args[a].seed = args[b].seed
    /\ args[a].num = args[b].num
    /\ args[a].locale = args[b].locale
    /\ args[a].profile = args[b].profile

Finished(r) == pc[r] = "exited" /\ exit[r] = 0

\* the records a run handed to the columnar writer, in flush order
Written(r) == Concat(pq[r].tables)

\* C1: determinism.  Two independent runs of generate_people followed by
\* write_csv with the same seed, count, locale and profile hand the same
\* sequence of records to the writer and leave the same file text.
Thm_C1_Determinism ==
    (/\ Finished(1) /\ Finished(2)
     /\ args[1].format = "csv" /\ args[2].format = "csv"
     /\ SameInputs(1, 2))
    => (csv[1].rows = csv[2].rows /\ fs[1].text = fs[2].text)

Wit_C1_TwoCsvRuns ==
    /\ Finished(1) /\ Finished(2)
    /\ args[1].format = "csv" /\ args[2].format = "csv"
    /\ SameInputs(1, 2)
    /\ Len(csv[1].rows) >= 2
    /\ Len(fs[2].text) > Len(HeaderLine)

\* C2: cross-format equivalence.  For the same seed, count, locale and profile,
\* the concatenation of the batches flushed by write_parquet is, field for
\* field and in order, the sequence of rows write_csv wrote, and the text file
\* is the header followed by those records formatted line by line.
Thm_C2_CrossFormat ==
    \A a \in Runs, b \in Runs :
        (/\ Finished(a) /\ Finished(b)
         /\ args[a].format = "csv" /\ args[b].format = "parquet"
         /\ SameInputs(a, b))
        => (/\ Written(b) = csv[a].rows
            /\ fs[a].text = HeaderLine \o FormatRows(Written(b)))

Wit_C2_CsvAndParquet ==
    \E a \in Runs, b \in Runs :
        /\ Finished(a) /\ Finished(b)
        /\ args[a].format = "csv" /\ args[b].format = "parquet"
        /\ SameInputs(a, b)
        /\ Len(pq[b].tables) >= 2
        /\ Len(csv[a].rows) = MaxN

\* C3: batch-size invariance.  For N >= 1 rows, write_parquet with
\* chunk_size = 1 and with chunk_size = N writes the same N records in the
\* same order; only the batch boundaries differ (N batches of one row against
\* one batch of N rows).
Thm_C3_BatchSizeInvariance ==
    \A a \in Runs, b \in Runs :
        (/\ Finished(a) /\ Finished(b)
         /\ args[a].format = "parquet" /\ args[b].format = "parquet"
         /\ SameInputs(a, b)
         /\ args[a].num >= 1
         /\ args[a].chunk_size = 1 /\ args[b].chunk_size = args[b].num)
        => (/\ Written(a) = Written(b)
            /\ Len(Written(a)) = args[a].num
            /\ Len(pq[a].tables) = args[a].num
            /\ Len(pq[b].tables) = 1)

Wit_C3_ChunkOneAndChunkN ==
    \E a \in Runs, b \in Runs :
        /\ Finished(a) /\ Finished(b)
        /\ args[a].format = "parquet" /\ args[b].format = "parquet"
        /\ SameInputs(a, b)
        /\ args[a].num = MaxN
        /\ args[a].chunk_size = 1 /\ args[b].chunk_size = args[b].num
        /\ Len(pq[a].tables) = MaxN /\ Len(pq[b].tables) = 1

\* C4 (as claimed): with count = 0 and columnar format the run ends with an
\* output file that exists, was finalized by close(), carries the schema and
\* holds no data batch.
Cex_C4_EmptyColumnarFile ==
    \A r \in Runs :
        (Finished(r) /\ args[r].format = "parquet" /\ args[r].num = 0)
        => (/\ fs[r].file = "present"
            /\ pq[r].writer = "closed"
            /\ fs[r].schema = SCHEMA
            /\ pq[r].tables = <<>>)

\* C5 (as claimed): with the backend available, every run of write_parquet
\* that has ended, normally or by an error, has called close() exactly once.
Cex_C5_CloseExactlyOnce ==
    \A r \in Runs :
        (pc[r] = "exited" /\ args[r].format = "parquet" /\ args[r].have_parquet)
        => pq[r].closes = 1

\* C6: columnar format without the backend.  The process ends with status 1
\* after exactly one diagnostic; no output file was created, the generator body
\* never ran (no record, no draw), and nothing was buffered or written.
Thm_C6_BackendUnavailable ==
    \A r \in Runs :
        (args[r].format = "parquet" /\ ~args[r].have_parquet)
        => (/\ fs[r].file = "absent"
            /\ ~gen[r].started /\ draws[r] = <<>> /\ row[r] = NoRow
            /\ pq[r] = PqInit
            /\ exit[r] # 0
            /\ pc[r] = "exited" =>
                  (exit[r] = 1 /\ stderr[r] = <<[msg |-> "pyarrow_missing", n |-> 0]>>))

Wit_C6_ExitedWithoutBackend ==
    \E r \in Runs :
        /\ args[r].format = "parquet" /\ ~args[r].have_parquet
        /\ pc[r] = "exited" /\ exit[r] = 1
        /\ args[r].num >= 1

\* every record the generator has yielded so far
Emitted(r) ==
    {csv[r].rows[k] : k \in 1..Len(csv[r].rows)}
    \cup {pq[r].batch[k] : k \in 1..Len(pq[r].batch)}
    \cup {Written(r)[k] : k \in 1..Len(Written(r))}
    \cup (IF gen[r].i > 0 THEN {row[r]} ELSE {})

\* C7: every record emitted by generate_people, in either profile, with
\* age < 22 has number_of_children = 0, whatever marital status was drawn.
Thm_C7_NoChildrenUnder22 ==
    \A r \in Runs : \A p \in Emitted(r) : p.age < 22 => p.number_of_children = 0

Wit_C7_MarriedUnder22 ==
    \E r \in Runs : \E p \in Emitted(r) :
        p.age < 22 /\ p.marital_status = "married" /\ p.number_of_children = 0

\* C8: every record emitted by generate_people is well formed: 18 <= age <=
\* the profile's maximum (90 or 95), number_of_children in 0..5, and
\* marital_status one of single, married, divorced, widowed.
Thm_C8_WellFormedRecord ==
    \A r \in Runs : \A p \in Emitted(r) :
        /\ 18 <= p.age /\ p.age <= AgeMax(args[r].profile)
        /\ p.number_of_children \in 0..5
        /\ p.marital_status \in {"single", "married", "divorced", "widowed"}

Wit_C8_OldWithFiveChildren ==
    \E r \in Runs : \E p \in Emitted(r) :
        p.age > 80 /\ p.number_of_children = 5 /\ p.marital_status = "divorced"

\* a step of run r that consumes one random draw, and the kinds involved
DrawStep(r) == Len(draws'[r]) = Len(draws[r]) + 1
NewKind(r) == draws'[r][Len(draws'[r])].kind
PrevKind(r) == IF draws[r] = <<>> THEN "none" ELSE draws[r][Len(draws[r])].kind

\* C9 (as claimed): every record consumes, in this strict order, an age draw, a
\* status draw, a children draw, a first-name draw and a last-name draw, and
\* every one of these draws advances the one seeded source rng.
Cex_C9_StrictOrderOneSource ==
    [][\A r \in Runs :
          DrawStep(r) =>
             /\ NewKind(r) = "age" => PrevKind(r) \in {"none", "last_name"}
             /\ NewKind(r) = "status" => PrevKind(r) = "age"
             /\ NewKind(r) = "children" => PrevKind(r) = "status"
             /\ NewKind(r) = "first_name" => PrevKind(r) = "children"
             /\ NewKind(r) = "last_name" => PrevKind(r) = "first_name"
             /\ gen'[r].rng = RngNext(gen[r].rng)]_vars

\* C9 (amended): every record consumes its draws in the order age, status,
\* children, first name, last name, where the children draw is consumed only
\* when age >= 22; the age, status and children draws advance the seeded
\* random.Random source and leave the name provider's engine alone, and the two
\* name draws advance the name provider's own engine and leave rng alone.
Thm_C9_DrawOrderTwoSources ==
    [][\A r \in Runs :
          DrawStep(r) =>
             /\ NewKind(r) = "age" => PrevKind(r) \in {"none", "last_name"}
             /\ NewKind(r) = "status" => PrevKind(r) = "age"
             /\ NewKind(r) = "children" => (PrevKind(r) = "status" /\ gen[r].age >= 22)
             /\ NewKind(r) = "first_name" =>
                   PrevKind(r) = (IF gen[r].age < 22 THEN "status" ELSE "children")
             /\ NewKind(r) = "last_name" => PrevKind(r) = "first_name"
             /\ NewKind(r) \in {"age", "status", "children"} =>
                   (gen'[r].rng = RngNext(gen[r].rng) /\ gen'[r].faker = gen[r].faker)
             /\ NewKind(r) \in {"first_name", "last_name"} =>
                   (gen'[r].faker = RngNext(gen[r].faker) /\ gen'[r].rng = gen[r].rng)]_vars

\* two records have been generated, one with a children draw and one without
Wit_C9_WithAndWithoutChildrenDraw ==
    \E r \in Runs :
        /\ pc[r] = "body" /\ gen[r].i = 2
        /\ Len(draws[r]) = 9
        /\ \E k \in 1..9 : draws[r][k].kind = "children"
        /\ draws[r][9].kind = "last_name"

\* the output handle of a serializer
Handle(r) == IF args[r].format = "csv" THEN csv[r].handle ELSE pq[r].writer

\* C10 (as claimed): in both serializers the output handle is acquired before
\* the first record is drawn from the row generator, and it has been released
\* whenever the serializer has been left, normally or by an exception.
Cex_C10_HandleBeforeLoop ==
    \A r \in Runs :
        /\ gen[r].started => Handle(r) # "none"
        /\ pc[r] \in {"return", "exited"} => Handle(r) # "open"

DonePrinted(r) == \E k \in 1..Len(stderr[r]) : stderr[r][k].msg = "done"

\* C11: a failure raised mid-stream in either format is neither swallowed nor
\* retried.  The step after the raise ends the process with status 1: no
\* further draw, row or batch is produced, every handle that was opened is
\* closed, and the final "Done. Wrote N rows" line is never printed by a
\* process that exits with status 1.
Thm_C11_FailurePropagates ==
    [][\A r \in Runs :
          /\ pc[r] = "unwind" =>
                /\ pc'[r] = "exited" /\ exit'[r] = 1
                /\ Handle(r)' # "open"
                /\ draws'[r] = draws[r]
                /\ csv'[r].rows = csv[r].rows /\ fs'[r].text = fs[r].text
                /\ pq'[r].tables = pq[r].tables
          /\ exit'[r] = 1 => ~DonePrinted(r)'
          /\ DonePrinted(r)' => exit'[r] = 0]_vars

Wit_C11_FailedAfterFirstRecord ==
    \E r \in Runs :
        /\ pc[r] = "exited" /\ exit[r] = 1
        /\ gen[r].i >= 1
        /\ Handle(r) = "closed"
        /\ ~DonePrinted(r)
        /\ stderr[r] = <<[msg |-> "traceback", n |-> 0]>>

RecordsWritten(r) ==
    IF args[r].format = "csv" THEN Len(csv[r].rows) ELSE Len(Written(r))

\* C12 (as claimed): whenever main has printed its final "Done. Wrote N rows"
\* line, N is the number of data records written to the output file, for
\* every integer --num accepts and for both formats.
Cex_C12_DoneCountIsRowCount ==
    \A r \in Runs :
        \A k \in 1..Len(stderr[r]) :
            stderr[r][k].msg = "done" => stderr[r][k].n = RecordsWritten(r)

InWriteParquet(r) ==
    /\ args[r].format = "parquet" /\ ~BackendMissing(args[r])
    /\ pc[r] # "unwind" /\ exit[r] # 1

BufferInv(r) ==
    LET p == pq[r]
        c == args[r].chunk_size
    IN  /\ Len(p.batch) = p.count % c
        /\ Len(p.batch) < c
        /\ \A k \in 1..Len(p.tables) :
              /\ Len(p.tables[k]) >= 1
              /\ k < Len(p.tables) => Len(p.tables[k]) = c
              /\ Len(p.tables[k]) <= c

FlushStep(r) ==
    LET p == pq[r]
        q == pq'[r]
        c == args[r].chunk_size
        flushed == Len(q.tables) = Len(p.tables) + 1
    IN  IF q.count = p.count + 1
        THEN /\ flushed <=> Len(p.batch) + 1 = c
             /\ flushed => /\ q.batch = <<>>
                           /\ q.tables[Len(q.tables)] =
                                  TableFromPydict(Append(p.batch, row[r]))
             /\ ~flushed => q.batch = Append(p.batch, row[r]) /\ q.tables = p.tables
        ELSE IF pc[r] = "after_loop"
        THEN /\ flushed <=> p.batch # <<>>
             /\ flushed => q.tables[Len(q.tables)] = TableFromPydict(p.batch)
             /\ ~flushed => q.tables = p.tables
        ELSE q.tables = p.tables /\ q.batch = p.batch

\* C18: batch-buffer lifecycle of write_parquet for chunk_size >= 1.  After
\* each processed row the buffer holds count mod chunk_size rows, fewer than
\* chunk_size; a batch is flushed exactly when the buffer reaches chunk_size,
\* and once more at stream end iff the buffer is non-empty; every flushed batch
\* is non-empty, all but possibly the last have exactly chunk_size rows, and
\* the buffer is empty right after a full-batch flush.
Thm_C18_BatchBufferLifecycle ==
    /\ [](\A r \in Runs : InWriteParquet(r) => BufferInv(r))
    /\ [][\A r \in Runs : (InWriteParquet(r) /\ InWriteParquet(r)') => FlushStep(r)]_vars

Wit_C18_FullBatchThenRemainder ==
    \E r \in Runs :
        /\ Finished(r) /\ args[r].format = "parquet"
        /\ args[r].chunk_size = 2 /\ pq[r].count = 3
        /\ Len(pq[r].tables) = 2
        /\ Len(pq[r].tables[1]) = 2 /\ Len(pq[r].tables[2]) = 1

(* ------------------------------------------------------------------ *)
(* The two samplers called on their own: choose_marital_status(rng,    *)
(* age) and sample_children(rng, age, marital_status) for every age    *)
(* sample_age can return and every marital status                      *)
(* ------------------------------------------------------------------ *)
NoWeights == <<>>

\* draws handed to rng.choices: the two ends and the middle of [0, 1)
ProbeDraws == {0, RngModulus \div 2, RngModulus - 1}

StatusSet == {MARITAL_STATUSES[k] : k \in 1..Len(MARITAL_STATUSES)}

ProbeInputs ==
    UNION {[pc : {"ready"}, profile : {p}, age : AGE_MIN..AgeMax(p),
            marital_status : StatusSet, u : ProbeDraws,
            weights : {NoWeights}, chosen : {""}, children : {0}]
           : p \in Profiles}

InitSampler ==
    /\ probe \in ProbeInputs
    /\ bank = BankIdle /\ dup = DupIdle /\ web = WebIdle
    /\ GenIdle

\* lines 27-39: the weights local of choose_marital_status and its result
Probe_ChooseMaritalStatus ==
    /\ probe.pc = "ready"
    /\ probe' = [probe EXCEPT
                   !.pc = "chosen",
                   !.weights = MaritalWeights(probe.profile, probe.age),
                   !.chosen = choose_marital_status(probe.profile, probe.age, probe.u)]
    /\ UNCHANGED <<bank, dup, web>>
    /\ UNCHANGED genVars

\* lines 46-66: the weights local of sample_children (none when it returns at
\* line 48) and its result
Probe_SampleChildren ==
    /\ probe.pc = "chosen"
    /\ probe' = [probe EXCEPT
                   !.pc = "sampled",
                   !.weights = IF ChildrenSkipsDraw(probe.age) THEN NoWeights
                               ELSE ChildrenWeights(probe.profile, probe.age,
                                                    probe.marital_status),
                   !.children = sample_children(probe.profile, probe.age,
                                                probe.marital_status, probe.u)]
    /\ UNCHANGED <<bank, dup, web>>
    /\ UNCHANGED genVars

NextSampler == Probe_ChooseMaritalStatus \/ Probe_SampleChildren

SpecSampler == InitSampler /\ [][NextSampler]_vars

\* the brackets as intervals of ages
MaritalBrackets(profile) ==
    <<AGE_MIN..21, 22..29, 30..44, 45..64, 65..AgeMax(profile)>>

MarriedBrackets(profile) == <<22..29, 30..39, 40..54, 55..AgeMax(profile)>>

BracketsOf(brackets, age) == {b \in 1..Len(brackets) : age \in brackets[b]}

Low(S) == CHOOSE x \in S : \A y \in S : x <= y

\* C17: bracket selection is first-match over ascending age < X tests.  For
\* every age in 18..max the age lies in exactly one of the five brackets <22,
\* 22-29, 30-44, 45-64, >=65 and choose_marital_status uses that bracket's
\* vector (the five vectors differ, so 22, 30, 45 and 65 are in the upper
\* bracket); for age >= 22 sample_children uses a vector fixed by the marital
\* status alone, except for married, where it is the vector of the one bracket
\* among <30, 30-39, 40-54, >=55 that holds the age.
Thm_C17_BracketSelection ==
    LET p == probe.profile
        a == probe.age
        ms == probe.marital_status
        mb == MaritalBrackets(p)
        cb == MarriedBrackets(p)
    IN  /\ probe.pc = "chosen" =>
              /\ Cardinality(BracketsOf(mb, a)) = 1
              /\ \A b \in BracketsOf(mb, a) :
                    probe.weights = MaritalWeights(p, Low(mb[b]))
              /\ \A b, c \in 1..Len(mb) :
                    b # c => MaritalWeights(p, Low(mb[b])) # MaritalWeights(p, Low(mb[c]))
        /\ (probe.pc = "sampled" /\ a >= 22) =>
              /\ ms # "married" => probe.weights = ChildrenWeights(p, 22, ms)
              /\ ms = "married" =>
                    /\ Cardinality(BracketsOf(cb, a)) = 1
                    /\ \A b \in BracketsOf(cb, a) :
                          probe.weights = ChildrenWeights(p, Low(cb[b]), ms)
              /\ \A s, t \in StatusSet :
                    s # t => ChildrenWeights(p, 22, s) # ChildrenWeights(p, 22, t)
              /\ \A b, c \in 1..3 :
                    b # c => ChildrenWeights(p, Low(cb[b]), "married")
                                 # ChildrenWeights(p, Low(cb[c]), "married")
        /\ (probe.pc = "sampled" /\ a < 22) =>
              probe.weights = NoWeights /\ probe.children = 0

Wit_C17_BoundaryAges ==
    /\ probe.pc = "sampled"
    /\ probe.age = 30
    /\ probe.marital_status = "married"
    /\ probe.weights = ChildrenWeights(probe.profile, 39, "married")
    /\ probe.weights # ChildrenWeights(probe.profile, 29, "married")

(* ------------------------------------------------------------------ *)
(* race_condition.py (deposit) and race_condition_fixed.py             *)
(* (deposit_fixed): a shared balance and threads depositing into it.   *)
(* The threads of one run differ only in their amount and position, so *)
(* they are kept as a bag of [pc, amount, current] records.            *)
(* ------------------------------------------------------------------ *)
NUM_THREADS == 10
DEPOSIT_AMOUNT == 10

Variants == {"buggy", "fixed"}

\* "test": test_race_condition / test_race_condition_fixed;
\* "pair": Thread 1: deposit(100), Thread 2: deposit(50)
Scenarios == {"test", "pair"}

Amounts(scenario) ==
    IF scenario = "test" THEN [k \in 1..NUM_THREADS |-> DEPOSIT_AMOUNT]
    ELSE <<100, 50>>

\* deposit_fixed runs its body under `with lock:`; deposit takes no lock
Locked_never(variant) == FALSE

Locked(variant) == variant = "fixed"

\* (an update applied to the balance of the moment of the write)
NewBalance_atomic(current, amount, balance) == balance + amount

\* balance = current + amount: the value read earlier, not the present one
NewBalance(current, amount, balance) == current + amount

BankInit(variant, scenario) ==
    [pc |-> "reset", variant |-> variant, scenario |-> scenario,
     balance |-> 0, lock |-> "free", todo |-> Amounts(scenario),
     threads |-> EmptyBag, final |-> -1, raced |-> FALSE]

InitRace ==
    /\ \E v \in Variants, sc \in Scenarios : bank = BankInit(v, sc)
    /\ dup = DupIdle /\ web = WebIdle /\ probe = ProbeIdle
    /\ GenIdle

ThreadsAt(position) == {t \in BagToSet(bank.threads) : t.pc = position}

Moved(t, u) == (bank.threads (-) SetToBag({t})) (+) SetToBag({u})

\* balance = 0
Test_Reset ==
    /\ bank.pc = "reset"
    /\ bank' = [bank EXCEPT !.pc = "spawn", !.balance = 0]
    /\ UNCHANGED <<dup, web, probe>>
    /\ UNCHANGED genVars

\* one pass of the first loop: Thread(target=deposit, args=(amount,)), t.start()
Test_Start ==
    /\ bank.pc = "spawn"
    /\ bank.todo # <<>>
    /\ bank' = [bank EXCEPT
                  !.todo = Tail(@),
                  !.threads = @ (+) SetToBag({[pc |-> "ready",
                                               amount |-> Head(bank.todo),
                                               current |-> 0]})]
    /\ UNCHANGED <<dup, web, probe>>
    /\ UNCHANGED genVars

\* the second loop: t.join() returns for every thread once all have ended
Test_Join ==
    /\ bank.pc = "spawn"
    /\ bank.todo = <<>>
    /\ \A t \in BagToSet(bank.threads) : t.pc = "done"
    /\ bank' = [bank EXCEPT !.pc = "print"]
    /\ UNCHANGED <<dup, web, probe>>
    /\ UNCHANGED genVars

\* print(f"Final balance: {balance}")
Test_Print ==
    /\ bank.pc = "print"
    /\ bank' = [bank EXCEPT !.pc = "done", !.final = bank.balance]
    /\ UNCHANGED <<dup, web, probe>>
    /\ UNCHANGED genVars

\* with lock: (deposit_fixed only)
Deposit_Acquire ==
    /\ Locked(bank.variant)
    /\ bank.lock = "free"
    /\ \E t \in ThreadsAt("ready") :
          bank' = [bank EXCEPT !.lock = "held",
                               !.threads = Moved(t, [t EXCEPT !.pc = "locked"])]
    /\ UNCHANGED <<dup, web, probe>>
    /\ UNCHANGED genVars

\* current = balance; raced records that another thread was then between its
\* own read and write
Deposit_Read ==
    /\ \E t \in ThreadsAt(IF Locked(bank.variant) THEN "locked" ELSE "ready") :
          bank' = [bank EXCEPT
                     !.raced = @ \/ ThreadsAt("read") # {},
                     !.threads = Moved(t, [t EXCEPT !.pc = "read",
                                                    !.current = bank.balance])]
    /\ UNCHANGED <<dup, web, probe>>
    /\ UNCHANGED genVars

\* balance = current + amount
Deposit_Write ==
    /\ \E t \in ThreadsAt("read") :
          bank' = [bank EXCEPT
                     !.balance = NewBalance(t.current, t.amount, bank.balance),
                     !.threads = Moved(t, [t EXCEPT
                                    !.pc = IF Locked(bank.variant) THEN "written"
                                           ELSE "done",
                                    !.current = 0])]
    /\ UNCHANGED <<dup, web, probe>>
    /\ UNCHANGED genVars

\* print(...) and the end of the with block (deposit_fixed only)
Deposit_Release ==
    /\ \E t \in ThreadsAt("written") :
          bank' = [bank EXCEPT !.lock = "free",
                               !.threads = Moved(t, [t EXCEPT !.pc = "done"])]
    /\ UNCHANGED <<dup, web, probe>>
    /\ UNCHANGED genVars

NextRace ==
    \/ Test_Reset
    \/ Test_Start
    \/ Test_Join
    \/ Test_Print
    \/ Deposit_Acquire
    \/ Deposit_Read
    \/ Deposit_Write
    \/ Deposit_Release

SpecRace == InitRace /\ [][NextRace]_vars

RECURSIVE SumSeq(_)
SumSeq(q) == IF q = <<>> THEN 0 ELSE Head(q) + SumSeq(Tail(q))

RECURSIVE SumAmounts(_, _)
SumAmounts(b, S) ==
    IF S = {} THEN 0
    ELSE LET t == CHOOSE x \in S : TRUE
         IN  t.amount * CopiesIn(t, b) + SumAmounts(b, S \ {t})

\* the amounts of the threads that have executed their write
Deposited == SumAmounts(bank.threads, ThreadsAt("written") \cup ThreadsAt("done"))

Total == SumSeq(Amounts(bank.scenario))

InCritical == ThreadsAt("locked") \cup ThreadsAt("read") \cup ThreadsAt("written")

\* C13: deposit_fixed under the shared lock.  With balance reset to 0 and ten
\* threads each running deposit_fixed(10), the balance printed after all joins
\* is 100 in every interleaving; at every moment the balance is the sum of
\* the deposits already written (none is lost), and at most one thread is
\* between acquiring and releasing the lock.
Thm_C13_FixedNeverLosesDeposit ==
    bank.variant = "fixed" =>
        /\ (bank.scenario = "test" /\ bank.pc = "done") => bank.final = 100
        /\ bank.pc = "done" => bank.final = Total
        /\ bank.balance = Deposited
        /\ Cardinality(InCritical) <= 1
        /\ \A t \in InCritical : CopiesIn(t, bank.threads) = 1
        /\ (InCritical # {}) <=> bank.lock = "held"
        /\ ~bank.raced

Wit_C13_TenLockedDeposits ==
    /\ bank.variant = "fixed" /\ bank.scenario = "test"
    /\ bank.pc = "done"
    /\ bank.final = 100
    /\ BagCardinality(bank.threads) = NUM_THREADS

\* C14: deposit reads and writes balance in two steps without a lock.  The
\* printed balance falls short of the sum of the deposits exactly when some
\* thread read the balance while another was between its read and its write;
\* then whole deposits are missing: 100 or 50 instead of 150 for deposit(100)
\* and deposit(50), a multiple of 10 below 100 for ten deposit(10).
Thm_C14_BuggyLosesDepositOnOverlap ==
    (bank.variant = "buggy" /\ bank.pc = "done") =>
        /\ (bank.final < Total) <=> bank.raced
        /\ bank.scenario = "pair" => bank.final \in {50, 100, 150}
        /\ bank.scenario = "test" => bank.final \in {DEPOSIT_AMOUNT * k : k \in 1..NUM_THREADS}

Wit_C14_PairEndsAt50 ==
    /\ bank.variant = "buggy" /\ bank.scenario = "pair"
    /\ bank.pc = "done"
    /\ bank.final = 50
    /\ bank.raced

\* the other outcomes of the lost update
PairEndsAt100 ==
    /\ bank.variant = "buggy" /\ bank.scenario = "pair"
    /\ bank.pc = "done" /\ bank.final = 100

TestEndsBelow100 ==
    /\ bank.variant = "buggy" /\ bank.scenario = "test"
    /\ bank.pc = "done" /\ bank.final < 100

TestEndsAt10 ==
    /\ bank.variant = "buggy" /\ bank.scenario = "test"
    /\ bank.pc = "done" /\ bank.final = 10

(* ------------------------------------------------------------------ *)
(* find_duplicates.py (duplicates is a list) and                       *)
(* find_duplicates_fixed.py (duplicates is a set)                      *)
(* ------------------------------------------------------------------ *)
\* the list of the test at the bottom of both files
EXAMPLE_ITEMS == <<1, 2, 2, 3, 3, 3, 4>>

ItemLists ==
    UNION {[1..n -> 1..MaxVal] : n \in 0..MaxLen} \cup {EXAMPLE_ITEMS}

\* if item in seen
SeenBefore_always(seen, item) == TRUE

SeenBefore(seen, item) == item \in seen

\* list(s) for a set s: every element once, in an order the set chooses
ListsOf(S) ==
    {q \in [1..Cardinality(S) -> S] : {q[k] : k \in 1..Cardinality(S)} = S}

DupInit(variant, items) ==
    [pc |-> "loop", variant |-> variant, items |-> items, index |-> 1,
     seen |-> {}, duplicates |-> IF variant = "fixed" THEN {} ELSE <<>>,
     result |-> <<>>]

InitDup ==
    /\ \E v \in Variants, items \in ItemLists : dup = DupInit(v, items)
    /\ bank = BankIdle /\ web = WebIdle /\ probe = ProbeIdle
    /\ GenIdle

\* one pass of the loop: for item in items
Dup_Item ==
    /\ dup.pc = "loop"
    /\ dup.index <= Len(dup.items)
    /\ LET item == dup.items[dup.index]
       IN  dup' = [dup EXCEPT
                     !.index = @ + 1,
                     !.duplicates =
                         IF SeenBefore(dup.seen, item)
                         THEN IF dup.variant = "fixed" THEN @ \cup {item}
                              ELSE Append(@, item)
                         ELSE @,
                     !.seen = @ \cup {item}]
    /\ UNCHANGED <<bank, web, probe>>
    /\ UNCHANGED genVars

\* return list(duplicates) / return duplicates
Dup_Return ==
    /\ dup.pc = "loop"
    /\ dup.index > Len(dup.items)
    /\ \E q \in (IF dup.variant = "fixed" THEN ListsOf(dup.duplicates)
                 ELSE {dup.duplicates}) :
          dup' = [dup EXCEPT !.pc = "returned", !.result = q]
    /\ UNCHANGED <<bank, web, probe>>
    /\ UNCHANGED genVars

NextDup == Dup_Item \/ Dup_Return

SpecDup == InitDup /\ [][NextDup]_vars

Occurrences(q, v) == Cardinality({k \in 1..Len(q) : q[k] = v})

Values(q) == {q[k] : k \in 1..Len(q)}

\* C15: the fixed find_duplicates returns exactly the values that occur at
\* least twice in the list, each exactly once; the buggy one returns a value
\* once per occurrence after the first, in order of occurrence, so [2, 3, 3]
\* for [1, 2, 2, 3, 3, 3, 4].
Thm_C15_FindDuplicates ==
    dup.pc = "returned" =>
        /\ dup.variant = "fixed" =>
              /\ Values(dup.result) = {v \in Values(dup.items) : Occurrences(dup.items, v) >= 2}
              /\ \A v \in Values(dup.result) : Occurrences(dup.result, v) = 1
        /\ dup.variant = "buggy" =>
              /\ \A v \in Values(dup.items) :
                    Occurrences(dup.result, v) = Occurrences(dup.items, v) - 1
              /\ Values(dup.result) \subseteq Values(dup.items)
              /\ dup.items = EXAMPLE_ITEMS => dup.result = <<2, 3, 3>>

Wit_C15_ExampleList ==
    /\ dup.pc = "returned" /\ dup.variant = "fixed"
    /\ dup.items = EXAMPLE_ITEMS
    /\ dup.result = <<3, 2>>

BuggyExampleReturned ==
    /\ dup.pc = "returned" /\ dup.variant = "buggy"
    /\ dup.items = EXAMPLE_ITEMS
    /\ dup.result = <<2, 3, 3>>

(* ------------------------------------------------------------------ *)
(* sql_injection_secure.py: validate_user_id and the /user route.      *)
(* A text is a sequence of one-character strings.                      *)
(* ------------------------------------------------------------------ *)
DIGITS == <<"0", "1", "2", "3", "4", "5", "6", "7", "8", "9">>

IsDigit(c) == \E k \in 1..Len(DIGITS) : DIGITS[k] = c

DigitValue(c) == (CHOOSE k \in 1..Len(DIGITS) : DIGITS[k] = c) - 1

\* characters a request may put into id: digits, what int() tolerates around
\* them (blank, sign, underscore) and characters of injected SQL
IdChars == {"0", "1", "7", " ", "+", "-", "_", "=", "O", "'"}

INJECTION == <<"1", " ", "O", "R", " ", "1", "=", "1">>

\* request.args: id absent, or id present with a text
Requests ==
    {[has_id |-> FALSE, id |-> <<>>]}
    \cup {[has_id |-> TRUE, id |-> t] :
            t \in UNION {[1..n -> IdChars] : n \in 0..MaxIdLen} \cup {INJECTION}}

\* request.args.get('id', '')
ArgsGet(req) == IF req.has_id THEN req.id ELSE <<>>

RECURSIVE LStrip(_)
LStrip(t) == IF t # <<>> /\ Head(t) = " " THEN LStrip(Tail(t)) ELSE t

RECURSIVE RStrip(_)
RStrip(t) ==
    IF t # <<>> /\ t[Len(t)] = " " THEN RStrip(SubSeq(t, 1, Len(t) - 1)) ELSE t

RECURSIVE Decimal(_, _)
Decimal(t, acc) ==
    IF t = <<>> THEN acc
    ELSE IF Head(t) = "_" THEN Decimal(Tail(t), acc)
    ELSE Decimal(Tail(t), 10 * acc + DigitValue(Head(t)))

\* int(text) for a str: blanks stripped at both ends, one optional sign, then
\* digits with single underscores allowed between digits; anything else is a
\* ValueError.  The result is [ok, value].
IntOfStr(text) ==
    LET t == RStrip(LStrip(text))
        signed == t # <<>> /\ Head(t) \in {"+", "-"}
        body == IF signed THEN Tail(t) ELSE t
        wellformed ==
            /\ body # <<>>
            /\ \A k \in 1..Len(body) : IsDigit(body[k]) \/ body[k] = "_"
            /\ IsDigit(body[1]) /\ IsDigit(body[Len(body)])
            /\ \A k \in 1..(Len(body) - 1) : ~(body[k] = "_" /\ body[k + 1] = "_")
    IN  IF ~wellformed THEN [ok |-> FALSE, value |-> 0]
        ELSE [ok |-> TRUE,
              value |-> IF signed /\ Head(t) = "-" THEN 0 - Decimal(body, 0)
                        ELSE Decimal(body, 0)]

\* (a validator without the uid <= 0 test)
PositiveOnly_any(uid) == TRUE

\* lines 18-19: if uid <= 0: raise ValueError
PositiveOnly(uid) == uid > 0

\* Optional[int] as a set: {} is None, {uid} is the integer uid
validate_user_id(user_id) ==
    LET parsed == IntOfStr(user_id)
    IN  IF parsed.ok /\ PositiveOnly(parsed.value) THEN {parsed.value} ELSE {}

QUERY == "SELECT id, username, email FROM users WHERE id = ?"

NoResponse == [status |-> 0, body |-> ""]

WebInit(req) ==
    [pc |-> "get_user", request |-> req, user_id |-> {},
     conn |-> "unbound", connects |-> 0, closes |-> 0, executed |-> <<>>,
     pending |-> NoResponse, response |-> NoResponse,
     db_error |-> "none", uncaught |-> "none", security_log |-> 0]

InitWeb ==
    /\ \E req \in Requests : web = WebInit(req)
    /\ bank = BankIdle /\ dup = DupIdle /\ probe = ProbeIdle
    /\ GenIdle

\* lines 26-34
Get_Validate ==
    /\ web.pc = "get_user"
    /\ LET user_id == validate_user_id(ArgsGet(web.request))
       IN  IF user_id = {}
           THEN web' = [web EXCEPT
                          !.security_log = @ + 1,
                          !.response = [status |-> 400, body |-> "Invalid user ID"],
                          !.pc = "responded"]
           ELSE web' = [web EXCEPT !.user_id = user_id, !.pc = "connect"]
    /\ UNCHANGED <<bank, dup, probe>>
    /\ UNCHANGED genVars

\* lines 37-38: sqlite3.connect either binds conn or raises sqlite3.Error
Get_Connect ==
    /\ web.pc = "connect"
    /\ \E ok \in BOOLEAN :
          web' = IF ok
                 THEN [web EXCEPT !.conn = "open", !.connects = @ + 1, !.pc = "execute"]
                 ELSE [web EXCEPT !.db_error = "connect", !.pc = "except"]
    /\ UNCHANGED <<bank, dup, probe>>
    /\ UNCHANGED genVars

\* lines 41-42: cursor.execute(query, (user_id,))
Get_Execute ==
    /\ web.pc = "execute"
    /\ \E ok \in BOOLEAN :
          web' = IF ok
                 THEN [web EXCEPT
                         !.executed = Append(@, [query |-> QUERY,
                                                 params |-> <<CHOOSE u \in web.user_id : TRUE>>]),
                         !.pc = "fetch"]
                 ELSE [web EXCEPT !.db_error = "execute", !.pc = "except"]
    /\ UNCHANGED <<bank, dup, probe>>
    /\ UNCHANGED genVars

\* lines 43-55: fetchone() returns a row or None, or raises; the return value
\* waits for the finally clause
Get_Fetch ==
    /\ web.pc = "fetch"
    /\ \E outcome \in {"row", "none", "error"} :
          web' = IF outcome = "error"
                 THEN [web EXCEPT !.db_error = "fetch", !.pc = "except"]
                 ELSE [web EXCEPT
                         !.pending = IF outcome = "none"
                                     THEN [status |-> 404, body |-> "User not found"]
                                     ELSE [status |-> 200, body |-> "user"],
                         !.pc = "finally"]
    /\ UNCHANGED <<bank, dup, probe>>
    /\ UNCHANGED genVars

\* lines 57-60
Get_Except ==
    /\ web.pc = "except"
    /\ web' = [web EXCEPT
                 !.pending = [status |-> 500, body |-> "Internal server error"],
                 !.pc = "finally"]
    /\ UNCHANGED <<bank, dup, probe>>
    /\ UNCHANGED genVars

\* lines 62-63: conn.close(); when connect raised, conn was never bound and the
\* name lookup raises UnboundLocalError, which replaces the pending return
Get_Finally ==
    /\ web.pc = "finally"
    /\ web' = IF web.conn = "unbound"
              THEN [web EXCEPT !.uncaught = "UnboundLocalError", !.pc = "responded"]
              ELSE [web EXCEPT !.conn = "closed", !.closes = @ + 1,
                               !.response = web.pending, !.pc = "responded"]
    /\ UNCHANGED <<bank, dup, probe>>
    /\ UNCHANGED genVars

NextWeb ==
    \/ Get_Validate
    \/ Get_Connect
    \/ Get_Execute
    \/ Get_Fetch
    \/ Get_Except
    \/ Get_Finally

SpecWeb == InitWeb /\ [][NextWeb]_vars

\* an id that is not the text of a positive integer: missing, empty, holding
\* a minus sign or any character other than digits, blank, plus and
\* underscore, or with no digit other than 0
NotPositiveIntegerText(req) ==
    \/ ~req.has_id
    \/ req.id = <<>>
    \/ \E k \in 1..Len(req.id) : ~IsDigit(req.id[k]) /\ req.id[k] \notin {" ", "+", "_"}
    \/ \A k \in 1..Len(req.id) : IsDigit(req.id[k]) => req.id[k] = "0"

\* plain decimal digits without a leading zero
PlainDecimal(req) ==
    /\ req.has_id /\ req.id # <<>>
    /\ \A k \in 1..Len(req.id) : IsDigit(req.id[k])
    /\ req.id[1] # "0"

DigitsOf(t) == SelectSeq(t, IsDigit)

\* C16: a request whose id is not the text of a positive integer (missing,
\* empty, zero, negative, injected SQL) is answered 400 'Invalid user ID'
\* with no connection opened and no query executed; the only query ever
\* executed is the constant parameterized text with one validated positive
\* integer, the one the digits of id denote, bound as its parameter; and plain
\* decimal ids pass validation.
Thm_C16_InvalidIdRejectedBeforeDatabase ==
    LET req == web.request
    IN  /\ (web.pc # "get_user" /\ NotPositiveIntegerText(req)) =>
              /\ web.pc = "responded"
              /\ web.response = [status |-> 400, body |-> "Invalid user ID"]
              /\ web.connects = 0 /\ web.conn = "unbound"
              /\ web.executed = <<>>
              /\ web.uncaught = "none"
        /\ (web.pc # "get_user" /\ web.user_id = {}) =>
              web.response.status = 400 /\ web.connects = 0 /\ web.executed = <<>>
        /\ (web.connects > 0 \/ web.executed # <<>>) =>
              /\ ~NotPositiveIntegerText(req)
              /\ web.user_id = {Decimal(DigitsOf(req.id), 0)}
        /\ Len(web.executed) <= 1
        /\ \A k \in 1..Len(web.executed) :
              /\ web.executed[k].query = QUERY
              /\ web.executed[k].params = <<Decimal(DigitsOf(req.id), 0)>>
              /\ web.executed[k].params[1] > 0
        /\ (web.pc # "get_user" /\ PlainDecimal(req)) =>
              web.user_id = {Decimal(req.id, 0)}

Wit_C16_InjectionRejected ==
    /\ web.request = [has_id |-> TRUE, id |-> INJECTION]
    /\ web.pc = "responded"
    /\ web.response.status = 400
    /\ web.connects = 0 /\ web.executed = <<>>

\* a validated id reaching the database as a bound parameter
ValidIdQueried ==
    /\ web.request.id = <<"1", "7">>
    /\ web.executed = <<[query |-> QUERY, params |-> <<17>>]>>

\* C19 (as claimed): with a valid id, every sqlite3.Error raised while
\* connecting, querying or fetching ends in the response 500 'Internal server
\* error' and not in an uncaught exception, and no connection is left open
\* when the request has been answered.
Cex_C19_DatabaseErrorIs500 ==
    web.pc = "responded" =>
        /\ web.db_error # "none" =>
              /\ web.response = [status |-> 500, body |-> "Internal server error"]
              /\ web.uncaught = "none"
        /\ web.conn # "open"
        /\ web.closes = web.connects

====
